---- MODULE Spec2Model ----
(***************************************************************************)
(* State-machine model of iwin.Site (src/iwin/__init__.py): the per-site   *)
(* pipeline run by Site.fit, at the level of which attributes, object      *)
(* fields and error entries each stage sets.                               *)
(*                                                                         *)
(* Attribute values are coded as integers: a calendar date is its day      *)
(* number, and the null-like values the code tests for have the negative   *)
(* codes below.  A weather frame is the set of the day numbers of its      *)
(* rows (reset_index keeps them in date order); Python None is {PyNone}.   *)
(***************************************************************************)
EXTENDS Integers, Sequences, FiniteSets, TLC

PyNone == -1001
StrNone == -1002
StrNan == -1003
StrNull == -1004
StrEmpty == -1005
NaT == -1006
Float == -1007
SAWYT == -1008
ESWYT == -1011
Corrected == -1012
ErrorsRef == -1009
Absent == -1010

Specials == {PyNone, StrNone, StrNan, StrNull, StrEmpty, NaT, Float, SAWYT, ErrorsRef, Absent,
             Corrected}

IsDate(v) == v \notin Specials

\* the four-way test `s=='None' or s is None or str(s)=='nan' or str(s)=='null'`
IsNullLike(v) == v \in {StrNone, PyNone, StrNan, StrNull}

\* the five-way test of getPhenologyDates, which also rejects ''
IsNullOrEmpty(v) == IsNullLike(v) \/ v = StrEmpty

\* pd.to_datetime(str(v)): 'None' and 'null' are not parseable
ParseRaises(v) == v \in {PyNone, StrNone, StrNull}

\* pd.to_datetime(str(v)) when it does not raise: 'nan', '' and 'NaT' give NaT
ToDatetime(v) == IF IsDate(v) THEN v ELSE NaT

\* str(x).split(' ')[0] of a value that is a Timestamp, NaT or None
DateStr(v) == IF v = PyNone THEN StrNone ELSE v

----------------------------------------------------------------------------
(* Inputs: the configuration object `m`, the weather file and the site.    *)

MaxDay == 6
SowDay == 10
MaxLen == 4
MaxGDD == 5
LOOKAHEAD == 365
UID == 1
LocWithRows == 1
DAP == 1
GDDreq == 2
daysGF == 2
TbaseDefault == 0
CROP_TBASE_GDD == 1
CONST_DAYHR_AS == 1300

WeatherDays == (SowDay - 1) .. (SowDay + MaxDay)

Faults == {"none", "weather", "gdd", "daylength", "tadjday", "stats", "prft",
           "ndvi", "ipar", "fipar", "gpp", "cgpp"}

NoWeather == {PyNone}

Has(a, k) == k \in DOMAIN a
Get(a, k) == IF Has(a, k) THEN a[k] ELSE PyNone
Put(a, k, v) == [x \in (DOMAIN a) \cup {k} |-> IF x = k THEN v ELSE a[x]]

VARIABLES pc, site, wdf, fault, dayHR, ret, call, calc

vars == <<pc, site, wdf, fault, dayHR, ret, call, calc>>

\* an entry that names the site but not its location
ErrWithoutLocation(s, msg) == [uid |-> s.uid, error |-> msg]

Err(s, msg) == [uid |-> s.uid, loc |-> s.loc, error |-> msg]

\* entry into a method of Site
Enter(s, name) == [s EXCEPT !.trace = Append(@, name)]

\* an exception leaving the current method
Raise(s) == [s EXCEPT !.exc = TRUE]

\* an except-handler that appends an entry to self.errors
Catch(s, msg) == [s EXCEPT !.errors = Append(@, Err(s, msg)),
                           !.caught = Append(@, [handler |-> msg, appended |-> TRUE])]

\* an except-handler that only prints
Swallow(s, where) ==
  [s EXCEPT !.caught = Append(@, [handler |-> where, appended |-> FALSE])]

\* a try block whose handler appends an entry
Try(s, msg) == IF s.exc THEN Catch([s EXCEPT !.exc = FALSE], msg) ELSE s

\* rows of the weather file for a location
Rows(w, loc) == IF loc = LocWithRows THEN WeatherDays \ w.gap ELSE {}

\* Site.getWeather(weatherDF, s, e); s = e = PyNone is the default call
getWeather(sIn, w, sArg, eArg) ==
  LET s0 == Enter(sIn, "getWeather")
      s1 == [s0 EXCEPT !.weather = NoWeather]
      sv == IF sArg = PyNone THEN Get(s1.attributes, "sowing") ELSE sArg
      ev == IF sArg = PyNone /\ eArg = PyNone
              THEN (IF IsDate(sv) THEN sv + LOOKAHEAD ELSE NaT)
              ELSE eArg
  IN  IF ~w.ok THEN s1
      ELSE IF sArg = PyNone /\ eArg = PyNone /\ ParseRaises(sv)
        THEN Catch(s1, "Getting weather data")
      ELSE IF s1.loc = PyNone THEN s1
      ELSE IF IsNullLike(sv) \/ IsNullLike(ev) THEN s1
      ELSE IF fault = "weather" THEN Catch(s1, "Getting weather data")
      ELSE [s1 EXCEPT !.weather =
              {d \in Rows(w, s1.loc) : IsDate(sv) /\ IsDate(ev) /\ d >= sv /\ d <= ev}]

\* Python int(): truncation toward zero, of num/den with den > 0
IntTrunc(num, den) == IF num >= 0 THEN num \div den ELSE -((-num) \div den)

\* a stage for which the offset is looked at first
OffsetOrObserved(a, stage, offset) ==
  IF Has(a, offset) /\ ~IsNullOrEmpty(a[offset])
    THEN Put(a, stage, a["sowing"] + IntTrunc(a[offset], 2))
    ELSE a

\* one stage of getPhenologyDates: observed date, else
\* sowing + pd.DateOffset(days=int(Days_To_<stage>)); a Days_To_<stage> value
\* counts half days, so that 5 is 2.5 days and int() gives 2
ObservedOrOffset(a, stage, offset) ==
  IF ~IsNullOrEmpty(Get(a, stage)) THEN a
  ELSE IF Has(a, offset) /\ ~IsNullOrEmpty(a[offset])
         THEN Put(a, stage, a["sowing"] + IntTrunc(a[offset], 2))
         ELSE a

\* Site.getPhenologyDates
getPhenologyDates(sIn) ==
  LET s0 == Enter(sIn, "getPhenologyDates")
  IN
  IF IsNullOrEmpty(Get(s0.attributes, "sowing")) THEN s0
  ELSE LET a1 == ObservedOrOffset(s0.attributes, "emergence", "Days_To_Emergence")
           a2 == ObservedOrOffset(a1, "heading", "Days_To_Heading")
           a3 == ObservedOrOffset(a2, "anthesis", "Days_To_Anthesis")
           a4 == ObservedOrOffset(a3, "maturity", "Days_To_Maturity")
           s1 == [s0 EXCEPT !.attributes = a4]
       IN  IF s1.weather = NoWeather THEN getWeather(s1, wdf, PyNone, PyNone) ELSE s1

----------------------------------------------------------------------------
(* Numeric helpers standing for the numpy calls.                           *)

\* the rows of a frame in date order
RECURSIVE SortedRows(_)
SortedRows(S) ==
  IF S = {} THEN <<>>
  ELSE LET d == CHOOSE x \in S : \A y \in S : x <= y
       IN  <<d>> \o SortedRows(S \ {d})

\* np.cumsum of the same daily value over n rows
CumSum(n, daily) == [i \in 1..n |-> i * daily]

Abs(x) == IF x < 0 THEN -x ELSE x

\* an argmin in which the last minimum wins
ArgMinAbsLast(c, target) ==
  (CHOOSE i \in 1..Len(c) :
      /\ \A j \in 1..Len(c) : Abs(c[i] - target) <= Abs(c[j] - target)
      /\ \A j \in (i + 1)..Len(c) : Abs(c[j] - target) > Abs(c[i] - target)) - 1

\* np.argmin(np.abs(c - target)), 0-based, first minimum wins
ArgMinAbs(c, target) ==
  (CHOOSE i \in 1..Len(c) :
      /\ \A j \in 1..Len(c) : Abs(c[i] - target) <= Abs(c[j] - target)
      /\ \A j \in 1..(i - 1) : Abs(c[j] - target) > Abs(c[i] - target)) - 1

\* gdd.calculateGDD for one row whose TMIN = TMAX = temp
calculateGDD(temp, Tbase) == IF temp - Tbase > 0 THEN temp - Tbase ELSE 0

\* the base temperature getGDD hands to gdd.calculateGDD: the parameter Tbase
\* is TbaseDefault when the caller passes none, and the configured value
\* replaces it only when it is None
BaseTemperature(passed) ==
  IF passed = Absent THEN TbaseDefault
  ELSE IF passed = PyNone THEN CROP_TBASE_GDD
  ELSE passed

\* one row of the GDD series of getGDD(m, self.weather), TMIN = TMAX = w.temp
DailyGDD(w) == calculateGDD(w.temp, BaseTemperature(Absent))

\* tadjday.estimate_TAdjDay for one row
DailyTAdj(w) == w.temp

\* Site.getGDD(m, self.weather): "none" is None, "empty" is [], "arr" an array
getGDD(s0) ==
  IF s0.weather = NoWeather THEN [s0 EXCEPT !.GDD = "none"]
  ELSE IF fault = "gdd"
    THEN [Catch(s0, "Calculating Growing degree days") EXCEPT !.GDD = "empty"]
    ELSE [s0 EXCEPT !.GDD = "arr"]

\* Site.getEmergenceDate: the date, or PyNone for the bare return
getEmergenceDate(s0, cGDD) ==
  IF Len(cGDD) <= 0 THEN PyNone
  ELSE s0.pheno_dates + ArgMinAbs(cGDD, GDDreq)

\* Site.getEstimatedEmergence
getEstimatedEmergence(sIn) ==
  LET s0 == Enter(sIn, "getEstimatedEmergence")
      s1 == IF s0.weather = NoWeather THEN getWeather(s0, wdf, PyNone, PyNone) ELSE s0
      a == s1.attributes
  IN  IF Has(a, "sowing") /\ IsNullLike(a["sowing"]) THEN s1
      ELSE IF ~Has(a, "sowing") THEN Raise(s1)
      ELSE IF ~IsDate(ToDatetime(a["sowing"])) THEN Raise(s1)
      ELSE LET s2 == getGDD([s1 EXCEPT !.pheno_dates = a["sowing"]])
               n == IF s2.GDD = "arr" THEN Cardinality(s2.weather) ELSE 0
               pe == getEmergenceDate(s2, CumSum(n, DailyGDD(wdf)))
           IN  IF s2.GDD = "none" THEN Catch(s2, "Estimating Emergence date")
               ELSE IF pe = PyNone
                 THEN Catch([s2 EXCEPT !.attributes = Put(@, "PredEmergence", PyNone)],
                            "Estimating Emergence date")
               ELSE [s2 EXCEPT !.attributes =
                       Put(Put(@, "PredEmergence", pe), "PredDaysToEmergence", pe - a["sowing"])]

\* a regression in which the boundary day length takes the short-day formula
getDaysToHeadingInclusive(a, h) ==
  IF Has(a, "Nursery") /\ a["Nursery"] = SAWYT
    THEN IF h <= CONST_DAYHR_AS THEN IntTrunc(61768000 - 51406 * h, 100000)
                                ELSE IntTrunc(873800 - 236 * h, 10000)
    ELSE IF h <= CONST_DAYHR_AS THEN IntTrunc(4912700 - 3862 * h, 10000)
                                ELSE IntTrunc(1153600 - 387 * h, 10000)

\* Site.getDaysToHeading, for a day length given in hundredths of an hour
getDaysToHeading(a, h) ==
  IF Has(a, "Nursery") /\ a["Nursery"] = SAWYT
    THEN IF h < CONST_DAYHR_AS THEN IntTrunc(61768000 - 51406 * h, 100000)
                               ELSE IntTrunc(873800 - 236 * h, 10000)
    ELSE IF h < CONST_DAYHR_AS THEN IntTrunc(4912700 - 3862 * h, 10000)
                               ELSE IntTrunc(1153600 - 387 * h, 10000)

\* Site.getDayLengthDAP with Site.getDayLength: the site, dAS and dlength
getDayLengthDAP(s0) ==
  LET a == s0.attributes
  IN  IF ~Has(a, "sowing") THEN [s |-> s0, dAS |-> PyNone, dlength |-> PyNone]
      ELSE IF ParseRaises(a["sowing"])
        THEN [s |-> Catch(s0, "Getting sowing date for estimating Daylength"),
              dAS |-> PyNone, dlength |-> PyNone]
      ELSE LET dAS == IF IsDate(a["sowing"]) THEN a["sowing"] + DAP ELSE NaT
           IN  IF fault = "daylength" \/ dAS = NaT
                 THEN [s |-> Catch(Catch(s0, "Getting Daylength"),
                                   "Getting sowing date for estimating Daylength"),
                       dAS |-> dAS, dlength |-> PyNone]
                 ELSE [s |-> s0, dAS |-> dAS, dlength |-> dayHR]

\* Site.getEstimatedHeading
getEstimatedHeading(sIn) ==
  LET s0 == Enter(sIn, "getEstimatedHeading")
      a == s0.attributes
  IN  IF Has(a, "sowing") /\ IsNullLike(a["sowing"]) THEN s0
      ELSE LET r == getDayLengthDAP(s0)
               a1 == Put(Put(r.s.attributes, "Date@DAS", DateStr(r.dAS)),
                         "DayLength@DAS", r.dlength)
               s1 == [r.s EXCEPT !.attributes = a1]
               n == getDaysToHeading(a1, r.dlength)
           IN  IF r.dlength = PyNone THEN Catch(s1, "Estimating Heading date")
               ELSE [s1 EXCEPT !.attributes =
                       Put(Put(@, "PredDaysToHead", n), "PredHeading", a["sowing"] + n)]

\* i-th row (0-based) of a frame
RowAt(S, i) == SortedRows(S)[i + 1]

\* one variant of Site.getMaturityDate, from heading date h: the maturity date,
\* PyNone when there is no heading, NaT when the computation raises
MaturityFrom(s0, h) ==
  LET df == {d \in s0.weather : d >= h}
  IN  IF h = PyNone THEN PyNone
      ELSE IF fault = "tadjday" \/ df = {} THEN NaT
      ELSE RowAt(df, ArgMinAbs(CumSum(Cardinality(df), DailyTAdj(wdf)), daysGF))

\* Site.getMaturityDate: ok = FALSE is the bare return
getMaturityDate(s0) ==
  LET a == s0.attributes
      none == [H |-> PyNone, pH |-> PyNone]
      hd == IF IsNullOrEmpty(Get(a, "heading")) THEN PyNone ELSE a["heading"]
      ph == IF IsNullOrEmpty(Get(a, "PredHeading")) THEN PyNone ELSE a["PredHeading"]
      mH == MaturityFrom(s0, hd)
      mpH == MaturityFrom(s0, ph)
      failed == Catch(s0, "Estimating maturity date from weather using TAdjDays")
  IN  IF s0.weather = NoWeather \/ IsNullOrEmpty(Get(a, "sowing"))
        THEN [ok |-> FALSE, s |-> s0, hd |-> hd, ph |-> ph] @@ none
      ELSE IF mH = NaT THEN [ok |-> TRUE, s |-> failed, hd |-> hd, ph |-> ph] @@ none
      ELSE IF mpH = NaT
        THEN [ok |-> TRUE, s |-> failed, hd |-> hd, ph |-> ph, H |-> mH, pH |-> PyNone]
      ELSE [ok |-> TRUE, s |-> s0, hd |-> hd, ph |-> ph, H |-> mH, pH |-> mpH]

\* days between two dates, None when the first is None
DaysBetween(later, earlier) == IF later = PyNone THEN PyNone ELSE later - earlier

\* Site.getEstimatedMaturity
getEstimatedMaturity(sIn) ==
  LET s0 == Enter(sIn, "getEstimatedMaturity")
      a == s0.attributes
      r == getMaturityDate(s0)
      a1 == Put(Put(Put(r.s.attributes,
                  "PredMaturity_H", DateStr(r.H)),
                  "PredDays_HM", DaysBetween(r.H, r.hd)),
                  "PredDaysToMaturity_H", DaysBetween(r.H, a["sowing"]))
      a2 == Put(Put(Put(a1,
                  "PredMaturity_pH", DateStr(r.pH)),
                  "PredDays_pHM", DaysBetween(r.pH, r.ph)),
                  "PredDaysToMaturity_pH", DaysBetween(r.pH, a["sowing"]))
  IN  IF Has(a, "sowing") /\ IsNullLike(a["sowing"]) THEN s0
      ELSE IF ~r.ok THEN Catch(s0, "Estimating Maturity date")
      ELSE [r.s EXCEPT !.attributes = a2]

\* Site.getEstimatedPhenologyDates
getEstimatedPhenologyDates(sIn) ==
  LET s0 == Enter(sIn, "getEstimatedPhenologyDates")
      e == getEstimatedEmergence(s0)
  IN  IF e.exc THEN Catch([e EXCEPT !.exc = FALSE], "Estimating phenology dates")
      ELSE getEstimatedMaturity(getEstimatedHeading(e))

----------------------------------------------------------------------------
(* Period masks.  A mask is the set of the rows it selects; None is NoMask. *)

Periods == {"SE", "SpE", "EH", "pEH", "EpH", "pEpH", "EM", "pEM", "pEpM",
            "SM", "SpM", "SH", "SpH", "HM", "HpM", "pHM", "pHpM"}

DasPeriods == {"dDAS_H", "dDAS_pH"}

NoMask == {PyNone}

\* a local date variable after its `... = None` validity test
NoneIfNullLike(v) == IF IsNullLike(v) THEN PyNone ELSE v

\* weather['Date'] > v raises for None and for a string that is no date
CmpRaises(v) == v \in {PyNone, StrNone, StrNull}

\* a mask that keeps the row on the start date as well
BetweenClosed(w, lo, hi) == {d \in w : IsDate(lo) /\ IsDate(hi) /\ d >= lo /\ d <= hi}

\* (weather['Date'] > lo) & (weather['Date'] <= hi); comparisons with NaT are False
Between(w, lo, hi) == {d \in w : IsDate(lo) /\ IsDate(hi) /\ d > lo /\ d <= hi}

\* str(a) >= str(b) for ISO dates, '' sorting first and 'NaT', 'nan' last
StrGE(a, b) ==
  LET rank(v) == IF v = StrEmpty THEN 0 ELSE IF IsDate(v) THEN 1 ELSE 2
  IN  IF IsDate(a) /\ IsDate(b) THEN a >= b ELSE rank(a) >= rank(b)

\* an ordering test that records nothing
OrderErrorSilent(c, g, msg) == g

\* self.errors.append outside an except-handler, when its condition holds
OrderError(c, g, msg) ==
  IF g.exc \/ ~c THEN g ELSE [g EXCEPT !.s.errors = Append(@, Err(g.s, msg))]

\* a read of a local variable that was never assigned
Unbound(c, g) == IF c THEN [g EXCEPT !.exc = TRUE] ELSE g

\* a mask assignment made whether or not its dates are there
SetMaskUnguarded(c, g, p, lo, hi) ==
  IF g.exc THEN g
  ELSE IF CmpRaises(lo) \/ CmpRaises(hi) THEN [g EXCEPT !.exc = TRUE]
  ELSE [g EXCEPT !.mk[p] = {d \in g.s.weather : IsDate(lo) /\ IsDate(hi) /\ d > lo /\ d <= hi}]

\* one mask assignment inside the try block, when its condition holds; skipped
\* once an exception is raised
SetMask(c, g, p, lo, hi) ==
  IF g.exc \/ ~c THEN g
  ELSE IF CmpRaises(lo) \/ CmpRaises(hi) THEN [g EXCEPT !.exc = TRUE]
  ELSE [g EXCEPT !.mk[p] = Between(g.s.weather, lo, hi)]

\* lines 900-936: periods between observed dates
FiltersObserved(g) ==
  LET a == g.s.attributes
      sow == a["sowing"]
      em == NoneIfNullLike(Get(a, "emergence"))
      hd == NoneIfNullLike(Get(a, "heading"))
      mt == NoneIfNullLike(Get(a, "maturity"))
      hm == hd # PyNone /\ mt # PyNone
      g1 == SetMask(em # PyNone, g, "SE", sow, em)
      g2 == SetMask(em # PyNone /\ hd # PyNone, g1, "EH", em, hd)
      g3 == SetMask(em # PyNone /\ mt # PyNone, g2, "EM", em, mt)
      g4 == OrderError(hm /\ StrGE(hd, mt), g3,
                       "Observed heading is equal or greater than maturity")
      g5 == SetMask(hm /\ ~StrGE(hd, mt), g4, "HM", hd, mt)
      g6 == SetMask(hd # PyNone, g5, "SH", sow, hd)
  IN  SetMask(mt # PyNone, g6, "SM", sow, mt)

\* lines 938-958: periods from the predicted emergence
FiltersPredEmergence(g) ==
  LET a == g.s.attributes
      pe == Get(a, "PredEmergence")
      hd == NoneIfNullLike(Get(a, "heading"))
      mt == NoneIfNullLike(Get(a, "maturity"))
      on == Has(a, "PredEmergence") /\ ~IsNullLike(pe)
      g1 == SetMask(on, g, "SpE", a["sowing"], pe)
      g2 == SetMask(on /\ hd # PyNone, g1, "pEH", pe, hd)
  IN  SetMask(on /\ mt # PyNone, g2, "pEM", pe, mt)

\* lines 960-998: periods to and from the predicted heading
FiltersPredHeading(g) ==
  LET a == g.s.attributes
      ph == Get(a, "PredHeading")
      em == NoneIfNullLike(Get(a, "emergence"))
      mt == NoneIfNullLike(Get(a, "maturity"))
      on == Has(a, "PredHeading") /\ ~IsNullLike(ph)
      g1 == SetMask(on, g, "SpH", a["sowing"], ph)
      g2 == SetMask(on /\ em # PyNone, g1, "EpH", em, ph)
      g3 == SetMask(on /\ mt # PyNone, g2, "pHM", ph, mt)
      g4 == OrderError(on /\ mt # PyNone /\ StrGE(ph, mt), g3,
                       "Estimated heading is equal or greater than maturity")
      g5 == Unbound(on /\ ~Has(a, "PredEmergence"), g4)
  IN  SetMask(on /\ Get(a, "PredEmergence") # PyNone, g5, "pEpH", a["PredEmergence"], ph)

\* lines 1000-1033: periods to the maturity predicted from the observed heading
FiltersPredMaturityH(g) ==
  LET a == g.s.attributes
      pm == Get(a, "PredMaturity_H")
      hd == NoneIfNullLike(Get(a, "heading"))
      on == Has(a, "PredMaturity_H") /\ ~IsNullLike(pm)
      g1 == SetMask(on, g, "SpM", a["sowing"], pm)
      g2 == OrderError(on /\ hd # PyNone /\ StrGE(hd, pm), g1,
                       "Observed heading is equal or greater than estimated maturity")
      g3 == SetMask(on /\ hd # PyNone /\ ~StrGE(hd, pm), g2, "HpM", hd, pm)
      g4 == Unbound(on /\ ~Has(a, "PredEmergence"), g3)
  IN  SetMask(on /\ Get(a, "PredEmergence") # PyNone, g4, "pEpM", a["PredEmergence"], pm)

\* lines 1036-1054: predicted heading to the maturity predicted from it
FiltersPredMaturitypH(g) ==
  LET a == g.s.attributes
      pm == Get(a, "PredMaturity_pH")
      ph == Get(a, "PredHeading")
      on == Has(a, "PredMaturity_pH") /\ ~IsNullLike(pm)
      g1 == Unbound(on /\ CmpRaises(ph), g)
      g2 == OrderError(on /\ StrGE(ph, pm), g1,
                       "Estimated heading is equal or greater than estimated maturity")
  IN  SetMask(on /\ ~StrGE(ph, pm), g2, "pHpM", ph, pm)

\* lines 1056-1065: periods from the date DAP days after sowing
FiltersDAS(g) ==
  LET a == g.s.attributes
      dd == Get(a, "Date@DAS")
      hd == NoneIfNullLike(Get(a, "heading"))
      ph == Get(a, "PredHeading")
      g1 == SetMask(Has(a, "Date@DAS") /\ hd # PyNone, g, "dDAS_H", dd, hd)
  IN  SetMask(Has(a, "Date@DAS") /\ ph # PyNone, g1, "dDAS_pH", dd, ph)

\* lines 1067-1122: Days_<period>, and zero-row masks become None
FiltersDays(g) ==
  LET set == {p \in Periods : g.mk[p] # NoMask}
      days == [k \in {"Days_" \o p : p \in set} |->
                 Cardinality(g.mk[CHOOSE p \in set : k = "Days_" \o p])]
  IN  IF g.exc THEN g
      ELSE [g EXCEPT !.s.attributes = days @@ @,
                     !.counted = TRUE,
                     !.mk = [p \in DOMAIN @ |->
                               IF p \in set /\ g.mk[p] = {} THEN NoMask ELSE @[p]]]

StatNames == {"Tmin", "Tmax", "Tavg", "Srad", "Pcp"}

SeasonPeriods == {"SH", "EH", "EpH", "pEH", "HM", "SpM", "SpH", "pEpH", "HpM", "pHpM"}

\* Site.updateWeatherparams: the attributes it sets, all plain numbers
updateWeatherparams(g, season) ==
  LET set == IF season THEN {p \in SeasonPeriods : g.mk[p] # NoMask} ELSE {}
      keys == (IF g.mk["SM"] # NoMask THEN StatNames ELSE {})
              \cup {n \o "_" \o p : n \in StatNames, p \in set}
  IN  IF g.exc \/ keys = {} THEN g
      ELSE IF fault = "stats" THEN [g EXCEPT !.exc = TRUE]
      ELSE [g EXCEPT !.s.attributes = [k \in keys |-> Float] @@ @]

\* the masks before the try block: all None
NoMasks == [p \in Periods \cup DasPeriods |-> NoMask]

\* what getFilters returns: none = TRUE is the bare return, mk the 19 masks
\* otherwise; the site remembers the last return, and whether the Days_ block ran
FiltersReturn(none, s, mk, counted) ==
  [none |-> none, mk |-> mk,
   s |-> [s EXCEPT !.filters = [called |-> TRUE, none |-> none, mk |-> mk,
                                counted |-> counted]]]

\* lines 1131-1135: the except clause and the return
FiltersExcept(g) ==
  FiltersReturn(FALSE, IF g.exc THEN Catch(g.s, "Getting filters for weather") ELSE g.s,
                g.mk, g.counted)

\* lines 866-1130: the try block
FiltersTry(s0, season) ==
  updateWeatherparams(FiltersDays(FiltersDAS(FiltersPredMaturitypH(FiltersPredMaturityH(
    FiltersPredHeading(FiltersPredEmergence(FiltersObserved(
      [s |-> s0, exc |-> FALSE, counted |-> FALSE, mk |-> NoMasks]))))))), season)

\* Site.getFilters
getFilters(sIn, season) ==
  LET s0 == Enter(sIn, "getFilters")
  IN  IF s0.weather = NoWeather \/ IsNullLike(Get(s0.attributes, "sowing"))
        THEN FiltersReturn(TRUE, s0, NoMasks, FALSE)
        ELSE FiltersExcept(FiltersTry(s0, season))

----------------------------------------------------------------------------
(* Object fields set outside __init__: "undef" before the first assignment *)
(* (reading one raises AttributeError), "none" for None, "val" otherwise.  *)

NormOrder == <<"EH", "pEH", "EpH", "pEpH", "HM", "pHM", "HpM", "pHpM">>

NormPeriods == {NormOrder[i] : i \in DOMAIN NormOrder}

\* the concatenated emergence-heading-maturity series: name, first and second part
ComboOrder == << <<"EHHM", "EH", "HM">>, <<"EpHpHM", "EpH", "pHM">>,
                 <<"pEHHM", "pEH", "HM">>, <<"EHHpM", "EH", "HpM">>,
                 <<"pEHHpM", "pEH", "HpM">>, <<"EpHpHpM", "EpH", "pHpM">>,
                 <<"pEpHpHpM", "pEpH", "pHpM">> >>

Combos == {ComboOrder[i][1] : i \in DOMAIN ComboOrder}

\* the eight estimate_IPAR blocks: first period, second period, whole-cycle name, series name
IparBlocks == << <<"EH", "HM", "EM", "EHHM">>, <<"pEH", "HM", "pEM", "pEHHM">>,
                 <<"EpH", "pHM", "EM", "EpHpHM">>, <<"pEpH", "pHM", "pEM", "pEpHpHM">>,
                 <<"EH", "HpM", "EpM", "EHHpM">>, <<"EpH", "pHpM", "EpM", "EpHpHpM">>,
                 <<"pEpH", "pHpM", "pEpM", "pEpHpHpM">>, <<"pEH", "HpM", "pEpM", "pEHHpM">> >>

FieldNames ==
  {k \o "_" \o p : k \in {"Norm_TT", "Norm_SimNDVI", "TDay", "PRFT", "SolRad", "iPAR"},
                   p \in NormPeriods}
  \cup {k \o "_" \o c : k \in {"iPAR", "PRFT", "SolRad", "fIPAR", "Norm_iPAR", "GPP"},
                        c \in Combos}
  \cup {"iPAR_pEpHpHM"}
  \cup {k \o "_" \o x : k \in {"NDVI", "iPAR"}, x \in {"EM", "pEM", "EpM", "pEpM"}}
  \cup {"NDVI"}

SetFields(s, f) == [s EXCEPT !.flds = f @@ @]

SetAttrs(s, f) == [s EXCEPT !.attributes = f @@ @]

\* the periods whose cumulative GDD getWeatherParameters stores
CgddPeriods == {"SM", "SH", "SE", "SpE", "EH", "EpH", "pEH", "pEpH", "EM", "pEM",
                "HM", "pHM", "HpM", "pHpM"}

CgddKey(p) == IF p = "dDAS_H" THEN "cGDD_DAS_H"
              ELSE IF p = "dDAS_pH" THEN "cGDD_DAS_pH" ELSE "cGDD_" \o p

\* np.nanmin and np.nanmax of a non-empty series without NaN
SeqMin(c) == CHOOSE x \in {c[i] : i \in DOMAIN c} : \A i \in DOMAIN c : x <= c[i]

SeqMax(c) == CHOOSE x \in {c[i] : i \in DOMAIN c} : \A i \in DOMAIN c : x >= c[i]

\* a series divided by its maximum only
NormalizeByMax(c) == [i \in DOMAIN c |-> <<c[i], SeqMax(c)>>]

\* one assignment of getNormalizeThermalTime:
\* (cGDD - np.nanmin(cGDD)) / (np.nanmax(cGDD) - np.nanmin(cGDD)),
\* each value as numerator and denominator; a zero denominator stands for nan
NormalizeTT(c) == [i \in DOMAIN c |-> <<c[i] - SeqMin(c), SeqMax(c) - SeqMin(c)>>]

\* the normalized series is an array of nan: the denominator max - min is zero
IsNanSeries(t) == \E i \in DOMAIN t : t[i][2] = 0

\* the periods whose Norm_TT_<period> field holds an array of nan, not None
SetNanTT(s, periods) == [s EXCEPT !.nanTT = periods]

\* Site.setupIPAR, period by period from position i of NormOrder
RECURSIVE setupIPAR(_, _, _)
setupIPAR(s, mk, i) ==
  IF i > Len(NormOrder)
    THEN SetFields(s, [k \in {"SolRad_" \o p : p \in NormPeriods} |->
           IF mk[CHOOSE p \in NormPeriods : k = "SolRad_" \o p] = NoMask
             THEN "none" ELSE "val"])
  ELSE LET p == NormOrder[i]
       IN  IF mk[p] = NoMask
             THEN setupIPAR(SetFields(s, ("TDay_" \o p :> "none") @@ ("PRFT_" \o p :> "none")),
                            mk, i + 1)
           ELSE IF fault = "prft"
             THEN Raise(Catch(SetFields(s, "TDay_" \o p :> "val"),
                              "Calculating photosynthesis reduction factor"))
           ELSE setupIPAR(SetFields(s, ("TDay_" \o p :> "val") @@ ("PRFT_" \o p :> "val")),
                          mk, i + 1)

\* lines 1175-1409: the try block of getWeatherParameters, given what getFilters
\* returned
WeatherParametersTry(r) ==
  LET live == {p \in CgddPeriods \cup DasPeriods : r.mk[p] # NoMask /\ r.mk[p] # {}}
      mk2 == [p \in DOMAIN r.mk |-> IF p \in live THEN r.mk[p] ELSE NoMask]
      s3 == SetAttrs(r.s, [k \in {CgddKey(p) : p \in live} |->
              Cardinality(r.mk[CHOOSE p \in live : k = CgddKey(p)]) * DailyGDD(wdf)])
      s4 == SetNanTT(SetFields(s3, [k \in {"Norm_TT_" \o p : p \in NormPeriods} |->
              IF (CHOOSE p \in NormPeriods : k = "Norm_TT_" \o p) \in live
                THEN "val" ELSE "none"]),
              {p \in live \cap NormPeriods :
                 IsNanSeries(NormalizeTT(CumSum(Cardinality(r.mk[p]), DailyGDD(wdf))))})
  IN  IF r.none THEN Raise(r.s)
      ELSE IF live # {} /\ r.s.GDD # "arr"
        THEN Catch(r.s, "Calculating additional weather parameters")
      ELSE Try(setupIPAR(s4, mk2, 1), "Calculating additional weather parameters")

\* Site.getWeatherParameters
getWeatherParameters(sIn, season) ==
  LET s0 == Enter(sIn, "getWeatherParameters")
      s1 == SetFields(s0, [k \in {n \o "_" \o p : n \in {"Norm_TT", "Norm_SimNDVI"},
                                                 p \in NormPeriods} |-> "none"])
  IN  IF s0.weather = NoWeather THEN s0
      ELSE WeatherParametersTry(getFilters(s1, season))

\* the NDVI-at-heading attributes a heading-to-maturity curve can start from:
\* the `if` branch first, the `elif` branch second
AnchorOrder ==
  [HM |-> <<"NDVI_atHeading_EH", "NDVI_atHeading_pEH">>,
   pHM |-> <<"NDVI_atHeading_EpH", "NDVI_atHeading_pEpH">>,
   HpM |-> <<"NDVI_atHeading_EH", "NDVI_atHeading_pEH">>,
   pHpM |-> <<"NDVI_atHeading_EpH", "NDVI_atHeading_pEpH">>]

\* an anchor choice that prefers the second attribute
ChosenAnchorSecondFirst(a, p) ==
  IF Has(a, AnchorOrder[p][2]) THEN AnchorOrder[p][2] ELSE AnchorOrder[p][1]

\* the attribute passed as NDVI_atHeading to estimateNDVI_HM for period p, one
\* of the two being present
ChosenAnchor(a, p) ==
  IF Has(a, AnchorOrder[p][1]) THEN AnchorOrder[p][1] ELSE AnchorOrder[p][2]

\* the anchor each simulated heading-to-maturity curve was computed from
SetAnchors(s, periods) ==
  [s EXCEPT !.anchorOf = [p \in periods |-> ChosenAnchor(s.attributes, p)]]

\* Site.estimateNDVI
estimateNDVI(sIn) ==
  LET s0 == Enter(sIn, "estimateNDVI")
      f == s0.flds
      eh == {p \in {"EH", "pEH", "EpH", "pEpH"} : f["Norm_TT_" \o p] = "val"}
      a1 == [k \in {"NDVI_atHeading_" \o p : p \in eh} |-> Float] @@ s0.attributes
      anchors == [p \in {"HM", "pHM", "HpM", "pHpM"} |->
                    IF p \in {"HM", "HpM"} THEN {"NDVI_atHeading_EH", "NDVI_atHeading_pEH"}
                    ELSE {"NDVI_atHeading_EpH", "NDVI_atHeading_pEpH"}]
      hm == {p \in DOMAIN anchors :
               f["Norm_TT_" \o p] = "val" /\ anchors[p] \cap DOMAIN a1 # {}}
      msg == "Estimating the normalized difference vegetation index (NDVI)"
  IN  IF f["Norm_TT_EH"] = "undef" THEN Catch(s0, msg)
      ELSE IF fault = "ndvi" /\ eh \cup hm # {} THEN Catch(s0, msg)
      ELSE SetAnchors(SetFields([s0 EXCEPT !.attributes = a1],
                                [k \in {"Norm_SimNDVI_" \o p : p \in eh \cup hm} |-> "val"]),
                      hm)

----------------------------------------------------------------------------
(* Site.getIPAR, block by block.                                           *)

\* `x is not None and y is not None and ...` over fields read in order
RECURSIVE AllSetFrom(_, _, _)
AllSetFrom(f, names, i) ==
  IF i > Len(names) THEN "yes"
  ELSE IF f[names[i]] = "undef" THEN "raise"
  ELSE IF f[names[i]] = "none" THEN "no"
  ELSE AllSetFrom(f, names, i + 1)

AllSet(f, names) == AllSetFrom(f, names, 1)

\* the NDVI-at-heading value behind the Norm_SimNDVI_<b> curve that
\* ipar.estimate_IPAR turns into the series c
NoteIparSource(s, c, b) ==
  [s EXCEPT !.iparFrom = (c :> s.attributes[s.anchorOf[b]]) @@ @]

\* lines 2117-2381: the estimate_IPAR blocks from position i on
RECURSIVE IparTry(_, _)
IparTry(s, i) ==
  IF i > Len(IparBlocks) THEN s
  ELSE LET a == IparBlocks[i][1]
           b == IparBlocks[i][2]
           xm == IparBlocks[i][3]
           c == IparBlocks[i][4]
           names == {"NDVI_" \o xm, "iPAR_" \o xm, "iPAR_" \o a, "iPAR_" \o b, "iPAR_" \o c}
           keys == {"iPAR_" \o xm, "iPAR_" \o a, "iPAR_" \o b, "iPAR_" \o c}
       IN  IF AllSet(s.flds, <<"Norm_TT_" \o a, "Norm_SimNDVI_" \o b>>) = "yes"
             THEN IF fault = "ipar" THEN Raise(s)
                  ELSE IparTry(NoteIparSource(SetAttrs(SetFields(s, [k \in names |-> "val"]),
                                                       [k \in keys |-> Float]), c, b),
                               i + 1)
             ELSE IparTry(SetFields(s, [k \in names |-> "none"]), i + 1)

\* lines 2389-2460: PRFT_<series> and SolRad_<series>, outside any try
RECURSIVE Concatenate(_, _, _)
Concatenate(s, kind, i) ==
  IF s.exc \/ i > Len(ComboOrder) THEN s
  ELSE LET r == AllSet(s.flds, <<kind \o "_" \o ComboOrder[i][2], kind \o "_" \o ComboOrder[i][3]>>)
       IN  IF r = "raise" THEN Raise(s)
           ELSE Concatenate(SetFields(s, (kind \o "_" \o ComboOrder[i][1]) :>
                                           (IF r = "yes" THEN "val" ELSE "none")),
                            kind, i + 1)

\* lines 2462-2506: fIPAR_<series>
RECURSIVE FiparTry(_, _)
FiparTry(s, i) ==
  IF i > Len(ComboOrder) THEN s
  ELSE LET c == ComboOrder[i][1]
           r == AllSet(s.flds, <<"iPAR_" \o c, "PRFT_" \o c, "SolRad_" \o c>>)
       IN  IF r = "raise" \/ (r = "yes" /\ fault = "fipar") THEN Raise(s)
           ELSE FiparTry(SetFields(s, ("fIPAR_" \o c) :> (IF r = "yes" THEN "val" ELSE "none")),
                         i + 1)

\* lines 2512-2525: sumfIPAR_<series>, outside any try
RECURSIVE SumFipar(_, _)
SumFipar(s, i) ==
  IF s.exc \/ i > Len(ComboOrder) THEN s
  ELSE LET c == ComboOrder[i][1]
       IN  IF s.flds["fIPAR_" \o c] = "undef" THEN Raise(s)
           ELSE IF s.flds["fIPAR_" \o c] = "none" THEN SumFipar(s, i + 1)
           ELSE SumFipar(SetAttrs(s, ("sumfIPAR_" \o c) :> Float), i + 1)

\* lines 2527-2547: Norm_iPAR_<series>, outside any try
RECURSIVE NormIpar(_, _)
NormIpar(s, i) ==
  IF s.exc \/ i > Len(ComboOrder) THEN s
  ELSE LET c == ComboOrder[i][1]
       IN  IF s.flds["iPAR_" \o c] = "undef" THEN Raise(s)
           ELSE IF s.flds["iPAR_" \o c] = "none" THEN NormIpar(s, i + 1)
           ELSE NormIpar(SetFields(s, ("Norm_iPAR_" \o c) :> "val"), i + 1)

\* lines 2573-2641: GPP_<series>, one try per series whose handler only prints
RECURSIVE GppTries(_, _)
GppTries(s, i) ==
  IF s.exc \/ i > Len(ComboOrder) THEN s
  ELSE LET c == ComboOrder[i][1]
           r == AllSet(s.flds, <<"SolRad_" \o c, "PRFT_" \o c, "iPAR_" \o c>>)
       IN  IF r = "raise" \/ (r = "yes" /\ fault = "gpp")
             THEN GppTries(Swallow(s, "GPP_" \o c), i + 1)
           ELSE IF r = "no" THEN GppTries(s, i + 1)
           ELSE GppTries(SetAttrs(SetFields(s, ("GPP_" \o c) :> "val"),
                                  ("cGPP_" \o c) :> Float), i + 1)

\* a correction that also recomputes the iPAR series from the corrected value
CorrectAnchorAndIpar(s, p) ==
  [SetAttrs(s, ("NDVI_atHeading_" \o p) :> Corrected)
     EXCEPT !.iparFrom = [c \in DOMAIN @ |-> Corrected]]

\* the NDVI-at-heading correction of an emergence-to-heading period:
\* attributes['NDVI_atHeading_<p>'] = 0.000243... * max(cGPP_<p>) + 0.5755...
CorrectAnchor(s, p) == SetAttrs(s, ("NDVI_atHeading_" \o p) :> Corrected)

\* lines 2647-2773: cGPP_<period> and sumGPP_<period>
RECURSIVE CgppTry(_, _)
CgppTry(s, i) ==
  IF i > Len(NormOrder) THEN s
  ELSE LET p == NormOrder[i]
           r == AllSet(s.flds, <<"SolRad_" \o p, "PRFT_" \o p, "iPAR_" \o p>>)
           sums == ("cGPP_" \o p :> Float) @@ ("sumGPP_" \o p :> Float)
           s1 == IF i <= 4 THEN CorrectAnchor(SetAttrs(s, sums), p)
                           ELSE SetAttrs(s, sums)
       IN  IF r = "raise" \/ (r = "yes" /\ fault = "cgpp") THEN Raise(s)
           ELSE IF r = "no"
             THEN CgppTry(SetAttrs(s, ("cGPP_" \o p :> PyNone) @@ ("sumGPP_" \o p :> PyNone)),
                          i + 1)
           ELSE IF i = 1 /\ s.flds["Norm_TT_HM"] = "val"
             THEN CgppTry(SetFields(s1, "NDVI" :> "val"), i + 1)
           ELSE CgppTry(s1, i + 1)

YieldOrder == << <<"sumGPP_HM", "SimYield">>, <<"sumGPP_pHM", "SimYield_pH">>,
                 <<"sumGPP_HpM", "SimYield_pM">>, <<"sumGPP_pHpM", "SimYield_pHpM">> >>

\* float("{:.2f}".format(self.attributes[sumGPP] * YIELD_FACTOR)): the summed GPP
\* the yield is the product of
TimesYieldFactor(s, yield, sumGPP) == [s EXCEPT !.yieldOf = (yield :> sumGPP) @@ @]

\* lines 2780-2816: SimYield*
RECURSIVE YieldTry(_, _)
YieldTry(s, i) ==
  IF i > Len(YieldOrder) THEN s
  ELSE LET a == s.attributes
       IN  IF ~Has(a, YieldOrder[i][1]) THEN Raise(s)
           ELSE IF a[YieldOrder[i][1]] = PyNone
             THEN YieldTry(SetAttrs(s, YieldOrder[i][2] :> PyNone), i + 1)
           ELSE YieldTry(SetAttrs(TimesYieldFactor(s, YieldOrder[i][2], YieldOrder[i][1]),
                                  YieldOrder[i][2] :> Float), i + 1)

\* a try block of getIPAR that follows statements outside any try: not reached
\* when one of those raised
FiparBlock(s) == IF s.exc THEN s ELSE Try(FiparTry(s, 1), "Estimating fiPAR")

CgppBlock(s) ==
  IF s.exc THEN s ELSE Try(CgppTry(s, 1), "Cumulative GPP from Heading to Maturity")

YieldBlock(s) == IF s.exc THEN s ELSE Try(YieldTry(s, 1), "Estimating Yield")

\* the statements of getIPAR from line 2117 on
IparBody(s0) ==
  LET s1 == Try(IparTry(s0, 1), "Estimating Total light interception (iPAR)")
      s3 == Concatenate(Concatenate(s1, "PRFT", 1), "SolRad", 1)
      s6 == GppTries(NormIpar(SumFipar(FiparBlock(s3), 1), 1), 1)
  IN  YieldBlock(CgppBlock(s6))

\* Site.getIPAR
getIPAR(sIn) ==
  LET s0 == Enter(sIn, "getIPAR")
  IN  IF s0.flds["Norm_SimNDVI_EH"] = "undef" THEN Raise(s0)
      ELSE IF \A p \in {"EH", "pEH", "EpH", "pEpH"} : s0.flds["Norm_SimNDVI_" \o p] = "none"
        THEN s0
      ELSE IparBody(s0)

----------------------------------------------------------------------------
(* The site after Site.__init__, and the calls made on it.                 *)

\* a getAttr that returns the mapping as it is
getAttrUnchanged(s) == s

\* Site.getAttr: attributes['errors'] refers to the list self.errors
getAttr(s) == [s EXCEPT !.attributes = Put(@, "errors", ErrorsRef)]

InputKeys == {"sowing", "emergence", "heading", "maturity", "PredHeading", "Days_To_Maturity"}

\* the attribute mapping handed to Site.__init__, without the absent keys
InputAttributes(v) == [k \in {x \in InputKeys : v[x] # Absent} |-> v[k]]

ObservedDates ==
  [emergence : {Absent, SowDay + 1, SowDay + 3},
   heading : {Absent, SowDay + 2, SowDay + 3},
   maturity : {Absent, SowDay + 2, SowDay + 5}]

\* the weather file: missing; complete or with two days missing; ending two
\* days after sowing
WeatherFiles ==
  {[ok |-> FALSE, gap |-> {}, temp |-> 1]}
  \cup [ok : {TRUE}, gap : {{}, {SowDay + 2, SowDay + 3}}, temp : {1, 2}]
  \cup {[ok |-> TRUE, gap |-> (SowDay + 3) .. (SowDay + MaxDay), temp |-> 1]}

DayLengths == {1265, 1270}

\* sites with a usable sowing date
SownSites ==
  {[a |-> InputAttributes(o @@ [sowing |-> SowDay, PredHeading |-> v[2],
                                Days_To_Maturity |-> v[3]]),
    loc |-> LocWithRows, w |-> w, h |-> v[1]] :
     o \in ObservedDates, w \in WeatherFiles,
     v \in ({<<h, Absent, Absent>> : h \in DayLengths}
            \cup {<<1265, SowDay + 2, Absent>>, <<1265, Absent, 10>>})}

\* sites whose sowing date is missing or not valid
UnsownSites ==
  {[a |-> InputAttributes(o @@ [sowing |-> sow, PredHeading |-> Absent,
                                Days_To_Maturity |-> Absent]),
    loc |-> LocWithRows, w |-> w, h |-> 1265] :
     o \in [emergence : {Absent, SowDay + 1}, heading : {Absent, SowDay + 2},
            maturity : {Absent, SowDay + 5}],
     sow \in {Absent, PyNone, StrNone, StrNan, StrNull, StrEmpty},
     w \in {x \in WeatherFiles : x.gap = {} /\ x.temp = 1}}

\* sites at a location the weather file has no rows for, or without location
ElsewhereSites ==
  {[a |-> [sowing |-> SowDay, emergence |-> SowDay + 1, heading |-> SowDay + 2,
           maturity |-> SowDay + 5],
    loc |-> l, w |-> [ok |-> TRUE, gap |-> {}, temp |-> 1], h |-> 1265] :
     l \in {LocWithRows + 1, PyNone}}

Sites == SownSites \cup UnsownSites \cup ElsewhereSites

NoFilters == [called |-> FALSE, none |-> TRUE, counted |-> FALSE, mk |-> NoMasks]

\* Site.__init__
NewSite(attributes, loc) ==
  [uid |-> UID, loc |-> loc, attributes |-> attributes, errors |-> <<>>,
   weather |-> NoWeather, GDD |-> "none", pheno_dates |-> PyNone,
   flds |-> [k \in FieldNames |-> "undef"],
   nanTT |-> {},
   iparFrom |-> <<>>,
   anchorOf |-> <<>>,
   yieldOf |-> <<>>,
   filters |-> NoFilters, trace |-> <<>>, caught |-> <<>>, exc |-> FALSE]

\* no numeric method applied on its own
NoCalc == [fn |-> "none"]

Init ==
  \E x \in Sites :
    /\ site = NewSite(x.a, x.loc)
    /\ wdf = x.w
    /\ dayHR = x.h
    /\ pc = "new"
    /\ fault = "none"
    /\ ret = "pending"
    /\ call = "none"
    /\ calc = NoCalc

\* the next step of fit after a stage: the except clause when the stage raised
After(s, next) == IF s.exc THEN "except" ELSE next

\* site.getWeather(weatherDF, s, e) called with explicit dates before fit
CallGetWeather ==
  /\ pc = "new"
  /\ site.trace = <<>>
  /\ site' = getWeather(site, wdf, SowDay - 1, SowDay + MaxDay)
  /\ UNCHANGED <<pc, wdf, fault, dayHR, ret, call, calc>>

\* site.getFilters(m) called directly: the call, under some behaviour of the
\* weather columns
CallGetFilters ==
  /\ pc = "new"
  /\ pc' = "getFilters"
  /\ call' = "getFilters"
  /\ fault' \in {"none", "stats"}
  /\ UNCHANGED <<site, wdf, dayHR, ret, calc>>

ReturnGetFilters ==
  /\ pc = "getFilters"
  /\ \E r \in {getFilters(site, FALSE)} :
       /\ site' = r.s
       /\ ret' = IF r.none THEN "None" ELSE "masks"
  /\ pc' = "done"
  /\ UNCHANGED <<wdf, fault, dayHR, call, calc>>

\* site.fit(m) with m None: line 2834
FitNoModel ==
  /\ pc = "new"
  /\ pc' = "done"
  /\ ret' = "None"
  /\ call' = "fit(None)"
  /\ UNCHANGED <<site, wdf, fault, dayHR, calc>>

\* site.fit(m): the call, under some behaviour of the external modules
CallFit ==
  /\ pc = "new"
  /\ pc' = "getPhenologyDates"
  /\ call' = "fit"
  /\ fault' \in Faults
  /\ UNCHANGED <<site, wdf, dayHR, ret, calc>>

Stage(at, result, next) ==
  /\ pc = at
  /\ site' = result
  /\ pc' = After(result, next)
  /\ UNCHANGED <<wdf, fault, dayHR, ret, call, calc>>

FitPhenologyDates ==
  Stage("getPhenologyDates", getPhenologyDates(site), "getEstimatedPhenologyDates")

FitEstimatedPhenologyDates ==
  Stage("getEstimatedPhenologyDates", getEstimatedPhenologyDates(site), "getWeatherParameters")

FitWeatherParameters ==
  Stage("getWeatherParameters", getWeatherParameters(site, TRUE), "estimateNDVI")

FitEstimateNDVI ==
  Stage("estimateNDVI", estimateNDVI(site), "getIPAR")

\* lines 2846-2847, reached when getIPAR returns
SetIdentity(r) ==
  IF r.exc THEN r ELSE SetAttrs(r, ("UID" :> r.uid) @@ ("location" :> r.loc))

\* getIPAR and the two assignments after it
FitIPAR == Stage("getIPAR", SetIdentity(getIPAR(site)), "return")

\* the bare except clause of fit: prints, appends nothing
FitExcept ==
  /\ pc = "except"
  /\ site' = Swallow([site EXCEPT !.exc = FALSE], "fit")
  /\ pc' = "return"
  /\ UNCHANGED <<wdf, fault, dayHR, ret, call, calc>>

\* return self.getAttr()
FitReturn ==
  /\ pc = "return"
  /\ site' = getAttr(site)
  /\ ret' = "attrs"
  /\ pc' = "done"
  /\ UNCHANGED <<wdf, fault, dayHR, call, calc>>

Next ==
  \/ CallGetWeather
  \/ CallGetFilters
  \/ ReturnGetFilters
  \/ FitNoModel
  \/ CallFit
  \/ FitPhenologyDates
  \/ FitEstimatedPhenologyDates
  \/ FitWeatherParameters
  \/ FitEstimateNDVI
  \/ FitIPAR
  \/ FitExcept
  \/ FitReturn

Spec == Init /\ [][Next]_vars

----------------------------------------------------------------------------
(* The numeric methods applied on their own, to inputs drawn from bounded  *)
(* sets.                                                                   *)

\* np.cumsum of a GDD array: a non-decreasing series, the daily GDD being >= 0
GddSeries ==
  UNION {{c \in [1..n -> 0..MaxGDD] : \A i \in 1..(n - 1) : c[i] <= c[i + 1]} : n \in 0..MaxLen}

\* the site the methods are called on: sown on SowDay, pheno_dates starting there
CalcSite == [NewSite([sowing |-> SowDay], LocWithRows) EXCEPT !.pheno_dates = SowDay]

CalcInit ==
  /\ site = CalcSite
  /\ wdf = [ok |-> TRUE, gap |-> {}, temp |-> 1]
  /\ dayHR = CONST_DAYHR_AS
  /\ pc = "calc"
  /\ fault = "none"
  /\ ret = "pending"
  /\ call = "none"
  /\ calc = NoCalc

\* site.getEmergenceDate(m, cGDD)
CalcEmergenceDate ==
  /\ pc = "calc"
  /\ \E c \in GddSeries :
       calc' = [fn |-> "getEmergenceDate", cGDD |-> c, out |-> getEmergenceDate(site, c)]
  /\ UNCHANGED <<pc, site, wdf, fault, dayHR, ret, call>>

\* day lengths, in hundredths of an hour, on both sides of the boundary and on it
CalcDayLengths ==
  {1000, 1100, 1200, 1250, 1290, CONST_DAYHR_AS - 1, CONST_DAYHR_AS, CONST_DAYHR_AS + 1,
   1400, 1500}

\* the Nursery attribute: missing, 'SAWYT', another nursery
Nurseries == {Absent, SAWYT, ESWYT}

\* site.getDaysToHeading(m, dayHR) on a site of the given nursery
CalcDaysToHeading ==
  /\ pc = "calc"
  /\ \E h \in CalcDayLengths, n \in Nurseries :
       calc' = [fn |-> "getDaysToHeading", dayHR |-> h, nursery |-> n,
                out |-> getDaysToHeading(
                          IF n = Absent THEN site.attributes
                          ELSE Put(site.attributes, "Nursery", n), h)]
  /\ UNCHANGED <<pc, site, wdf, fault, dayHR, ret, call>>

\* getNormalizeThermalTime applied to the cumulative GDD of one period, which
\* getWeatherParameters builds from a period with at least one row
CalcNormalizeThermalTime ==
  /\ pc = "calc"
  /\ \E c \in GddSeries \ {<<>>} :
       calc' = [fn |-> "getNormalizeThermalTime", cGDD |-> c, out |-> NormalizeTT(c)]
  /\ UNCHANGED <<pc, site, wdf, fault, dayHR, ret, call>>

\* site.getGDD(m, w) and site.getGDD(m, w, Tbase) on one row of temperature t
CalcGDD ==
  /\ pc = "calc"
  /\ \E t \in 0..MaxGDD, b \in {Absent, PyNone, 0, 2} :
       calc' = [fn |-> "getGDD", temp |-> t, Tbase |-> b,
                out |-> calculateGDD(t, BaseTemperature(b))]
  /\ UNCHANGED <<pc, site, wdf, fault, dayHR, ret, call>>

\* the stages of getPhenologyDates and their offsets from sowing
StageOffsets ==
  [emergence |-> "Days_To_Emergence", heading |-> "Days_To_Heading",
   anthesis |-> "Days_To_Anthesis", maturity |-> "Days_To_Maturity"]

\* attributes with a sowing date and, unless Absent, an observed date and an
\* offset for one stage
PhenologyInput(stage, observed, offset) ==
  [k \in {"sowing"} \cup (IF observed = Absent THEN {} ELSE {stage})
                    \cup (IF offset = Absent THEN {} ELSE {StageOffsets[stage]}) |->
     IF k = "sowing" THEN SowDay ELSE IF k = stage THEN observed ELSE offset]

\* site.getPhenologyDates(m) on a site with one stage observed, given as an
\* offset of 0, 2.5 or 5 days, both or neither
CalcPhenologyDates ==
  /\ pc = "calc"
  /\ \E stage \in DOMAIN StageOffsets,
        o \in {Absent, PyNone, StrNan, StrEmpty, SowDay + 1},
        d \in {Absent, PyNone, StrNan, 0, 5, 10} :
       calc' = [fn |-> "getPhenologyDates", stage |-> stage,
                given |-> PhenologyInput(stage, o, d),
                out |-> getPhenologyDates(
                          [site EXCEPT !.attributes = PhenologyInput(stage, o, d)]).attributes]
  /\ UNCHANGED <<pc, site, wdf, fault, dayHR, ret, call>>

CalcNext ==
  \/ CalcGDD
  \/ CalcPhenologyDates
  \/ CalcEmergenceDate
  \/ CalcDaysToHeading
  \/ CalcNormalizeThermalTime

SpecCalc == CalcInit /\ [][CalcNext]_vars

----------------------------------------------------------------------------
(* Several sites fitted at the same time against one weather table.        *)

\* one step of fit on a site, and where fit stands after it
Landing(r, next) == [s |-> r, at |-> After(r, next)]

FitStep(s, at) ==
  CASE at = "getPhenologyDates" ->
         Landing(getPhenologyDates(s), "getEstimatedPhenologyDates")
    [] at = "getEstimatedPhenologyDates" ->
         Landing(getEstimatedPhenologyDates(s), "getWeatherParameters")
    [] at = "getWeatherParameters" ->
         Landing(getWeatherParameters(s, TRUE), "estimateNDVI")
    [] at = "estimateNDVI" -> Landing(estimateNDVI(s), "getIPAR")
    [] at = "getIPAR" -> Landing(SetIdentity(getIPAR(s)), "return")
    [] at = "except" -> [s |-> Swallow([s EXCEPT !.exc = FALSE], "fit"), at |-> "return"]
    [] at = "return" -> [s |-> getAttr(s), at |-> "done"]

\* fit run on a site from a position to its return, nothing else running
RECURSIVE RunFit(_)
RunFit(l) == IF l.at = "done" THEN l.s ELSE RunFit(FitStep(l.s, l.at))

\* every site's record would be one and the same object
CommitToAll(sites, w, l) == [v \in DOMAIN sites |-> l]

\* the assignments of a step go to self: the record of the site fit was called on
Commit(sites, w, l) == [sites EXCEPT ![w] = l]

Workers == {1, 2}

\* the sites fitted together: only a sowing date; all dates observed; heading
\* observed after maturity; at a location without weather rows
SharedSites ==
  {[a |-> [sowing |-> SowDay], loc |-> LocWithRows],
   [a |-> [sowing |-> SowDay, emergence |-> SowDay + 1, heading |-> SowDay + 2,
           maturity |-> SowDay + 5], loc |-> LocWithRows],
   [a |-> [sowing |-> SowDay, heading |-> SowDay + 3, maturity |-> SowDay + 2],
    loc |-> LocWithRows],
   [a |-> [sowing |-> SowDay, heading |-> SowDay + 2], loc |-> LocWithRows + 1]}

SitesInit ==
  /\ site = CalcSite
  /\ wdf \in {w \in WeatherFiles : w.ok}
  /\ dayHR = 1265
  /\ pc = "sites"
  /\ fault \in {"none", "prft"}
  /\ ret = "pending"
  /\ call = "fit"
  /\ \E x \in [Workers -> SharedSites] :
       calc = [fn |-> "fit",
               given |-> x,
               sites |-> [w \in Workers |->
                            [s |-> NewSite(x[w].a, x[w].loc), at |-> "getPhenologyDates"]]]

\* a worker takes the next step of fit on its site
WorkerStep ==
  /\ pc = "sites"
  /\ \E w \in Workers :
       /\ calc.sites[w].at # "done"
       /\ calc' = [calc EXCEPT !.sites =
                     Commit(@, w, FitStep(calc.sites[w].s, calc.sites[w].at))]
  /\ UNCHANGED <<pc, site, wdf, fault, dayHR, ret, call>>

SitesNext == WorkerStep

SpecSites == SitesInit /\ [][SitesNext]_vars

----------------------------------------------------------------------------
(* Properties.                                                             *)

\* the calls of fit that have returned
FitReturned == pc = "done" /\ call \in {"fit", "fit(None)"}

\* the returned mapping holds the site's error list under 'errors'
ReturnsErrors ==
  ret = "attrs" /\ Has(site.attributes, "errors") /\ site.attributes["errors"] = ErrorsRef

\* C1, as stated: every call of fit, whatever the inputs, returns the attribute
\* mapping, and the mapping contains the site's error list under 'errors'.
C1_EveryFitReturnsErrors == FitReturned => ReturnsErrors

\* C1, amended: every call of fit with a model returns the attribute mapping
\* with the site's error list under 'errors', whichever stages failed; a call
\* without a model returns None and leaves the site as it was.
C1_FitWithModelReturnsErrors ==
  /\ (pc = "done" /\ call = "fit") => ReturnsErrors
  /\ (pc = "done" /\ call = "fit(None)") => ret = "None" /\ ~Has(site.attributes, "errors")

\* a fit with a model has returned after a stage raised into fit's own handler
\* and after other handlers appended entries
C1_FailedStagesStillReturn ==
  /\ pc = "done" /\ call = "fit" /\ ReturnsErrors
  /\ Len(site.errors) > 0
  /\ \E i \in DOMAIN site.caught : site.caught[i].handler = "fit"

\* C2: every failure caught anywhere in the pipeline appends an entry to the
\* site's error list; no handler swallows a failure without an entry.
C2_EveryCaughtFailureAppends == \A i \in DOMAIN site.caught : site.caught[i].appended

\* the methods of Site entered so far include name
Entered(name) == \E i \in DOMAIN site.trace : site.trace[i] = name

\* C3: in getEstimatedPhenologyDates a failure of the emergence estimation never
\* keeps the heading estimation from being attempted, nor a failure of the
\* heading estimation the maturity estimation: once getEstimatedPhenologyDates
\* has run, both later estimators have been entered.
C3_LaterEstimatorsAttempted ==
  Entered("getEstimatedPhenologyDates")
    => Entered("getEstimatedHeading") /\ Entered("getEstimatedMaturity")

\* the sowing date is missing or not valid: absent, None, 'None', 'nan', 'null', ''
SowingInvalid == IsNullOrEmpty(Get(site.attributes, "sowing"))

\* the attributes the pipeline derives downstream of the sowing date
DownstreamKeys ==
  {"PredEmergence", "PredHeading", "PredMaturity_H", "PredMaturity_pH"}
  \cup {"Days_" \o p : p \in Periods}
  \cup {CgddKey(p) : p \in CgddPeriods \cup DasPeriods}
  \cup {YieldOrder[i][2] : i \in DOMAIN YieldOrder}

\* C4: when the sowing date is missing or invalid, after fit no downstream
\* derived attribute is present: no PredEmergence, PredHeading, PredMaturity_*,
\* no Days_* or cGDD_* and no SimYield*.
C4_InvalidSowingLeavesDownstreamUnset ==
  (pc = "done" /\ call = "fit" /\ SowingInvalid)
    => DownstreamKeys \cap DOMAIN site.attributes = {}

\* C5: when the sowing date is missing or invalid, the phenology work is
\* aborted and has recorded an entry in the site's error list by the time the
\* two phenology stages are over.
C5_InvalidSowingRecordsError ==
  (pc = "getWeatherParameters" /\ SowingInvalid) => Len(site.errors) > 0

\* the attributes handed to the constructor, which the pipeline only reads
ObservedKeys == {"sowing", "emergence", "heading", "maturity", "Days_To_Maturity"}

\* C6: after fit no derived attribute is present with a placeholder value, None
\* or the string 'None'; a stage that could not complete leaves it absent.
C6_NoPlaceholderValues ==
  (pc = "done" /\ call = "fit")
    => \A k \in DOMAIN site.attributes \ ObservedKeys :
         site.attributes[k] \notin {PyNone, StrNone}

\* the five stages of fit, in the order of lines 2839-2845
FitStages == <<"getPhenologyDates", "getEstimatedPhenologyDates", "getWeatherParameters",
               "estimateNDVI", "getIPAR">>

\* position in the trace of the entry into a method, 0 when it was not entered
EnteredAt(name) ==
  IF Entered(name) THEN CHOOSE i \in DOMAIN site.trace : site.trace[i] = name ELSE 0

\* C7: a fit with a model returns to its caller having entered all five stages,
\* in the fixed order.
C7_AllFiveStagesReached ==
  (pc = "done" /\ call = "fit")
    => /\ ret = "attrs"
       /\ \A i \in DOMAIN FitStages : Entered(FitStages[i])
       /\ \A i \in 1..(Len(FitStages) - 1) :
            EnteredAt(FitStages[i]) < EnteredAt(FitStages[i + 1])

\* the attributes holding the two dates that bound a period
Bounds(p) ==
  CASE p = "SE" -> <<"sowing", "emergence">>
    [] p = "SpE" -> <<"sowing", "PredEmergence">>
    [] p = "EH" -> <<"emergence", "heading">>
    [] p = "pEH" -> <<"PredEmergence", "heading">>
    [] p = "EpH" -> <<"emergence", "PredHeading">>
    [] p = "pEpH" -> <<"PredEmergence", "PredHeading">>
    [] p = "EM" -> <<"emergence", "maturity">>
    [] p = "pEM" -> <<"PredEmergence", "maturity">>
    [] p = "pEpM" -> <<"PredEmergence", "PredMaturity_H">>
    [] p = "SM" -> <<"sowing", "maturity">>
    [] p = "SpM" -> <<"sowing", "PredMaturity_H">>
    [] p = "SH" -> <<"sowing", "heading">>
    [] p = "SpH" -> <<"sowing", "PredHeading">>
    [] p = "HM" -> <<"heading", "maturity">>
    [] p = "HpM" -> <<"heading", "PredMaturity_H">>
    [] p = "pHM" -> <<"PredHeading", "maturity">>
    [] p = "pHpM" -> <<"PredHeading", "PredMaturity_pH">>
    [] p = "dDAS_H" -> <<"Date@DAS", "heading">>
    [] p = "dDAS_pH" -> <<"Date@DAS", "PredHeading">>

StartOf(p) == Get(site.attributes, Bounds(p)[1])

EndOf(p) == Get(site.attributes, Bounds(p)[2])

\* getFilters has returned its masks, and p is one it returned as available
Returned(p) == site.filters.called /\ ~site.filters.none /\ site.filters.mk[p] # NoMask

\* C8: every period mask that getFilters accepts, that is returns as available
\* after the row-counting block has run, selects exactly the rows of the
\* site's weather slice with start < Date <= end, and Days_<period> equals the
\* number of rows selected.
C8_AcceptedMaskIsHalfOpen ==
  \A p \in Periods :
    (Returned(p) /\ site.filters.counted)
      => /\ site.filters.mk[p] = {d \in site.weather : StartOf(p) < d /\ d <= EndOf(p)}
         /\ Has(site.attributes, "Days_" \o p)
         /\ site.attributes["Days_" \o p] = Cardinality(site.filters.mk[p])

\* getFilters accepted a mask that leaves out a row on its start date and holds
\* the row on its end date
C8_MaskAccepted ==
  \E p \in Periods :
    /\ Returned(p) /\ site.filters.counted
    /\ StartOf(p) \in site.weather /\ StartOf(p) \notin site.filters.mk[p]
    /\ EndOf(p) \in site.filters.mk[p]
    /\ site.attributes["Days_" \o p] > 1

\* C9: every mask getFilters returns as available has both endpoint dates
\* available, start < end, and at least one row, on every return path.
C9_ReturnedMaskIsValid ==
  \A p \in Periods \cup DasPeriods :
    Returned(p)
      => /\ IsDate(StartOf(p)) /\ IsDate(EndOf(p))
         /\ StartOf(p) < EndOf(p)
         /\ site.filters.mk[p] # {}

\* the four ordering messages of getFilters
OrderingMessages ==
  {"Observed heading is equal or greater than maturity",
   "Estimated heading is equal or greater than maturity",
   "Observed heading is equal or greater than estimated maturity",
   "Estimated heading is equal or greater than estimated maturity"}

\* C10: whenever the two dates bounding a period are both available with
\* start >= end, getFilters returns the period as unavailable and the site's
\* error list holds an ordering entry.
C10_DisorderIsRejectedAndLogged ==
  \A p \in Periods :
    (/\ site.filters.called /\ ~site.filters.none
     /\ IsDate(StartOf(p)) /\ IsDate(EndOf(p)) /\ StartOf(p) >= EndOf(p))
      => /\ site.filters.mk[p] = NoMask
         /\ \E i \in DOMAIN site.errors : site.errors[i].error \in OrderingMessages

\* getFilters has returned its masks (not the bare return)
FiltersGiven == site.filters.called /\ ~site.filters.none

\* the rows of the site's weather slice inside (start, end] of a period
RowsWithin(p) == {d \in site.weather : StartOf(p) < d /\ d <= EndOf(p)}

\* both dates bounding the period are available, in order, with a row between them
Anchored(p) ==
  IsDate(StartOf(p)) /\ IsDate(EndOf(p)) /\ StartOf(p) < EndOf(p) /\ RowsWithin(p) # {}

\* C11: for every period whose start and end dates are both available with
\* start < end and with at least one weather row in (start, end], getFilters
\* returns the mask as available and sets Days_<period>, whichever other
\* observed or predicted dates are missing.
C11_AnchoredPeriodIsAvailable ==
  \A p \in Periods :
    (FiltersGiven /\ Anchored(p)) => Returned(p) /\ Has(site.attributes, "Days_" \o p)

\* the observed heading date is on or after the observed maturity date
HeadingNotBeforeMaturity ==
  /\ IsDate(Get(site.attributes, "heading")) /\ IsDate(Get(site.attributes, "maturity"))
  /\ site.attributes["heading"] >= site.attributes["maturity"]

\* the error list holds the heading/maturity ordering entry with the site's uid and loc
HMOrderLogged ==
  \E i \in DOMAIN site.errors :
    site.errors[i] = [uid |-> site.uid, loc |-> site.loc,
                      error |-> "Observed heading is equal or greater than maturity"]

\* the attributes computed over the period heading to maturity
HMKeys == {"Days_HM", "cGDD_HM"} \cup {n \o "_HM" : n \in StatNames}

\* the period heading to maturity was dropped: no mask, none of its attributes
HMDropped == site.filters.mk["HM"] = NoMask /\ HMKeys \cap DOMAIN site.attributes = {}

\* C12, as stated: for any site whose observed heading is on or after its
\* observed maturity, a call of getFilters appends an error entry with the
\* site's uid and loc, returns _mask_HM as unavailable and leaves Days_HM,
\* cGDD_HM and the HM weather statistics unset.
C12_AnySiteLogsHeadingAfterMaturity ==
  (site.filters.called /\ HeadingNotBeforeMaturity) => HMOrderLogged /\ HMDropped

\* C12, amended: the same, for a call of getFilters on a site that has its
\* weather loaded and a sowing date that passes the validity test, so that the
\* call returns masks.
C12_LoadedSiteLogsHeadingAfterMaturity ==
  (FiltersGiven /\ HeadingNotBeforeMaturity) => HMOrderLogged /\ HMDropped

\* a fit has returned for a site with heading on or after maturity whose
\* getFilters call returned masks and logged the ordering entry
C12_HeadingAfterMaturityLogged ==
  /\ pc = "done" /\ call = "fit"
  /\ FiltersGiven /\ HeadingNotBeforeMaturity /\ HMOrderLogged
  /\ site.filters.mk["SH"] # NoMask

\* the site has an observed sowing and heading date and no other date: no
\* emergence, no maturity, nothing predicted
OnlySowingAndHeading ==
  /\ IsDate(Get(site.attributes, "sowing")) /\ IsDate(Get(site.attributes, "heading"))
  /\ DOMAIN site.attributes \cap
       {"emergence", "maturity", "Days_To_Maturity", "PredEmergence", "PredHeading",
        "PredMaturity_H", "PredMaturity_pH", "Date@DAS"} = {}

\* an exception reached the handler of getFilters
FiltersFailed ==
  \E i \in DOMAIN site.caught : site.caught[i].handler = "Getting filters for weather"

\* C13: for a site with observed sowing and heading only (no maturity, no
\* PredMaturity_H, no PredMaturity_pH), getFilters does not raise, not even
\* into its own handler; it returns _mask_HM, _mask_HpM and _mask_pHpM as
\* unavailable and sets none of Days_HM, cGDD_HM, Days_HpM, Days_pHpM.
C13_HeadingOnlySiteHasNoMaturityPeriods ==
  (site.filters.called /\ OnlySowingAndHeading)
    => /\ pc = "done" /\ ret \in {"None", "masks"}
       /\ ~site.exc /\ ~FiltersFailed
       /\ \A p \in {"HM", "HpM", "pHpM"} : site.filters.mk[p] = NoMask
       /\ {"Days_HM", "cGDD_HM", "Days_HpM", "Days_pHpM"} \cap DOMAIN site.attributes = {}

\* getFilters has returned masks for a site with sowing and heading only, the
\* period sowing to heading among them
C13_HeadingOnlySiteFiltered ==
  /\ pc = "done" /\ call = "getFilters" /\ ret = "masks"
  /\ OnlySowingAndHeading
  /\ site.filters.mk["SH"] # NoMask /\ Has(site.attributes, "Days_SH")

\* the attributes computed over a period: day count, weather statistics,
\* cumulative GDD
PeriodKeys(p) == {"Days_" \o p, CgddKey(p)} \cup {n \o "_" \o p : n \in StatNames}

\* getFilters ran its row-counting block over a period whose two dates are
\* there and whose filter (start, end] matches no row of the weather slice
MatchesNoRow(p) ==
  /\ FiltersGiven /\ site.filters.counted
  /\ IsDate(StartOf(p)) /\ IsDate(EndOf(p))
  /\ RowsWithin(p) = {}

\* C14: a period whose filter matches zero weather rows is discarded: its mask
\* is returned as unavailable, none of its per-period attributes (day count,
\* weather statistics, cumulative GDD) remains set, and the discard itself
\* sends nothing to the error handler of getFilters.
C14_EmptyPeriodIsDiscarded ==
  \A p \in Periods :
    MatchesNoRow(p)
      => /\ site.filters.mk[p] = NoMask
         /\ PeriodKeys(p) \cap DOMAIN site.attributes = {}
         /\ FiltersFailed => fault = "stats"

\* C15: after a fit in which no computation failed, for every period that
\* getFilters accepted the site holds the period's day count, its mean
\* TMIN/TMAX/TAVG/solar radiation and summed precipitation, and its cumulative
\* GDD; and this for each accepted period, not for some of them only.
C15_AcceptedPeriodHasStatistics ==
  \A p \in Periods :
    (pc = "done" /\ call = "fit" /\ fault = "none" /\ Returned(p) /\ site.filters.counted)
      => PeriodKeys(p) \subseteq DOMAIN site.attributes

\* distance of entry i (0-based) of the series handed to getEmergenceDate from
\* the GDD requirement
Distance(i) == Abs(calc.cGDD[i + 1] - GDDreq)

\* getEmergenceDate was applied to a non-empty series
EmergenceSelected == calc.fn = "getEmergenceDate" /\ Len(calc.cGDD) > 0

\* the index of pheno_dates that getEmergenceDate returned the date of
SelectedIndex == calc.out - site.pheno_dates

\* C16: getEmergenceDate selects an index i that minimises |cGDD[i] - GDDreq|,
\* and among equally close indices the lowest; the date returned is the one
\* that index gives, so the same series always yields the same date.
C16_EmergenceIsFirstNearest ==
  EmergenceSelected
    => /\ SelectedIndex \in 0..(Len(calc.cGDD) - 1)
       /\ \A j \in 0..(Len(calc.cGDD) - 1) : Distance(SelectedIndex) <= Distance(j)
       /\ \A j \in 0..(SelectedIndex - 1) : Distance(j) > Distance(SelectedIndex)

\* getEmergenceDate was applied to a series in which a later index is as close
\* to the requirement as the selected one, on the other side of it
C16_TieBroken ==
  /\ EmergenceSelected
  /\ SelectedIndex > 0
  /\ \E j \in (SelectedIndex + 1)..(Len(calc.cGDD) - 1) :
       /\ Distance(j) = Distance(SelectedIndex)
       /\ calc.cGDD[j + 1] # calc.cGDD[SelectedIndex + 1]

\* getDaysToHeading was applied
HeadingComputed == calc.fn = "getDaysToHeading"

\* the regression value for the day length and nursery getDaysToHeading was
\* applied to, as numerator and denominator: the SAWYT coefficients for the
\* nursery 'SAWYT', the other coefficients otherwise; the short-day formula
\* below the boundary, the long-day formula on and above it
Regression ==
  IF calc.nursery = SAWYT
    THEN IF calc.dayHR < CONST_DAYHR_AS
           THEN <<61768000 - 51406 * calc.dayHR, 100000>>
           ELSE <<873800 - 236 * calc.dayHR, 10000>>
    ELSE IF calc.dayHR < CONST_DAYHR_AS
           THEN <<4912700 - 3862 * calc.dayHR, 10000>>
           ELSE <<1153600 - 387 * calc.dayHR, 10000>>

\* n is the integer part of q[1] / q[2]: the nearest integer toward zero
IsIntegerPart(n, q) ==
  IF q[1] >= 0 THEN n * q[2] <= q[1] /\ q[1] < (n + 1) * q[2]
  ELSE (n - 1) * q[2] < q[1] /\ q[1] <= n * q[2]

\* n is the floor of q[1] / q[2]: the greatest integer not above it
IsFloor(n, q) == n * q[2] <= q[1] /\ q[1] < (n + 1) * q[2]

\* C17: getDaysToHeading uses the short-day formula when dayHR < CONST_DAYHR_AS
\* and the long-day formula when dayHR >= CONST_DAYHR_AS, the boundary itself
\* taking the long-day formula; it uses the SAWYT coefficients exactly when
\* Nursery is 'SAWYT' and the other coefficients for any other or no nursery.
C17_HeadingRegressionSelected ==
  HeadingComputed => IsIntegerPart(calc.out, Regression)

\* getDaysToHeading was applied on the boundary day length, for SAWYT and for
\* another nursery, and gave the long-day value
C17_BoundaryTakesLongDay ==
  /\ HeadingComputed /\ calc.dayHR = CONST_DAYHR_AS
  /\ \/ calc.nursery = SAWYT /\ calc.out = 56
     \/ calc.nursery # SAWYT /\ calc.out = 65

\* C18: the value getDaysToHeading returns is the floor of the regression
\* value, for every day length, negative regression values included.
C18_DaysToHeadingIsFloor ==
  HeadingComputed => IsFloor(calc.out, Regression)

\* the heading date under the given attribute is there, and the weather slice
\* has a row on or after it, so that a maturity can be estimated from it
MaturityAnchored(anchor) ==
  /\ IsDate(Get(site.attributes, anchor))
  /\ \E d \in site.weather : IsDate(d) /\ d >= site.attributes[anchor]

\* the three results of a maturity variant are there: a date and two day counts
MaturityEstimated(date, days, fromSowing) ==
  /\ IsDate(Get(site.attributes, date))
  /\ Get(site.attributes, days) \in Nat
  /\ Get(site.attributes, fromSowing) \in Nat

\* C19: once getEstimatedMaturity has run with no external computation
\* failing, the maturity anchored on the predicted heading (PredMaturity_pH,
\* PredDays_pHM, PredDaysToMaturity_pH) is there whenever PredHeading is, and
\* the one anchored on the observed heading whenever the observed heading is;
\* neither depends on the other being computable.
C19_MaturityVariantsIndependent ==
  (Entered("getEstimatedMaturity") /\ fault = "none" /\ IsDate(Get(site.attributes, "sowing")))
    => /\ MaturityAnchored("PredHeading")
            => MaturityEstimated("PredMaturity_pH", "PredDays_pHM", "PredDaysToMaturity_pH")
       /\ MaturityAnchored("heading")
            => MaturityEstimated("PredMaturity_H", "PredDays_HM", "PredDaysToMaturity_H")

\* getNormalizeThermalTime was applied to a strictly increasing series of at
\* least two entries
IncreasingNormalized ==
  /\ calc.fn = "getNormalizeThermalTime"
  /\ Len(calc.cGDD) >= 2
  /\ \A i \in 1..(Len(calc.cGDD) - 1) : calc.cGDD[i] < calc.cGDD[i + 1]

\* C20: for a strictly increasing cumulative GDD series with at least two
\* entries, the normalized thermal time starts at 0, ends at 1 and has every
\* value within [0, 1].
C20_NormalizedStartsAt0EndsAt1 ==
  IncreasingNormalized
    => /\ Len(calc.out) = Len(calc.cGDD)
       /\ \A i \in DOMAIN calc.out :
            calc.out[i][2] > 0 /\ 0 <= calc.out[i][1] /\ calc.out[i][1] <= calc.out[i][2]
       /\ calc.out[1][1] = 0
       /\ calc.out[Len(calc.out)][1] = calc.out[Len(calc.out)][2]

\* a strictly increasing series starting above 0 was normalized, with a value
\* strictly between 0 and 1 in it
C20_SeriesNormalized ==
  /\ IncreasingNormalized
  /\ calc.cGDD[1] > 0
  /\ \E i \in DOMAIN calc.out : 0 < calc.out[i][1] /\ calc.out[i][1] < calc.out[i][2]

\* what the pipeline derives from the normalized thermal time of a period: the
\* simulated NDVI and iPAR series, the summed GPP
DerivedFields(p) == {"Norm_SimNDVI_" \o p, "iPAR_" \o p}

\* C21: when the cumulative GDD series of a period has max = min, the
\* normalization raises nothing and no error is recorded for it, and after
\* fit nothing was derived from the period's normalized thermal time: no
\* simulated NDVI series, no iPAR series, no summed GPP.
C21_DegenerateNormalizationUnavailable ==
  \A p \in site.nanTT :
    (pc = "done" /\ call = "fit" /\ fault = "none")
      => /\ \A i \in DOMAIN site.errors :
              site.errors[i].error # "Calculating additional weather parameters"
         /\ \A f \in DerivedFields(p) : site.flds[f] # "val"
         /\ Get(site.attributes, "sumGPP_" \o p) # Float

\* the heading-to-maturity variant a summed GPP belongs to
VariantOf(sumGPP) ==
  CHOOSE p \in {"HM", "pHM", "HpM", "pHpM"} : sumGPP = "sumGPP_" \o p

\* fit has returned after a getIPAR that had a simulated NDVI series to work on
IparCompleted ==
  /\ pc = "done" /\ call = "fit"
  /\ Entered("getIPAR") /\ ~site.exc
  /\ \E p \in {"EH", "pEH", "EpH", "pEpH"} : site.flds["Norm_SimNDVI_" \o p] = "val"

VariantAvailable(p) ==
  \A k \in {"SolRad_", "PRFT_", "iPAR_"} : site.flds[k \o p] = "val"

\* C22: after getIPAR each of SimYield, SimYield_pH, SimYield_pM and
\* SimYield_pHpM is the summed GPP of its own variant times YIELD_FACTOR, and
\* it is set whenever the variant's PRFT, solar radiation and iPAR series over
\* heading to maturity are available.
C22_YieldFromOwnVariant ==
  IparCompleted =>
    \A i \in DOMAIN YieldOrder :
      /\ Get(site.attributes, YieldOrder[i][2]) = Float
           => /\ site.yieldOf[YieldOrder[i][2]] = YieldOrder[i][1]
              /\ site.attributes[YieldOrder[i][1]] = Float
      /\ VariantAvailable(VariantOf(YieldOrder[i][1]))
           => Get(site.attributes, YieldOrder[i][2]) = Float

\* the workers whose site is not the same after the step as before
Touched == {w \in Workers : calc'.sites[w] # calc.sites[w]}

C24_ErrorEntriesIdentifySite ==
  \A i \in DOMAIN site.errors :
    /\ DOMAIN site.errors[i] = {"uid", "loc", "error"}
    /\ site.errors[i].uid = site.uid
    /\ site.errors[i].loc = site.loc
    /\ site.errors[i].error \in STRING

C24_EntriesFromTwoStages ==
  /\ FitReturned
  /\ \E i, j \in DOMAIN site.errors : site.errors[i].error # site.errors[j].error
  /\ \E i \in DOMAIN site.errors : site.errors[i].error = "Estimating Yield"

\* the inputs of the observed variant of getIPAR are all available
ObservedVariantAvailable ==
  \A f \in {"Norm_TT_EH", "Norm_SimNDVI_EH", "Norm_SimNDVI_HM", "PRFT_HM", "SolRad_HM"} :
    site.flds[f] = "val"

\* C25: when the inputs of the observed variant are available, iPAR_EH and
\* iPAR_HM are set at the end of getIPAR and sumGPP_HM and SimYield are
\* computed, whether or not Norm_TT_pEH or Norm_SimNDVI_HpM is available.
C25_ObservedVariantIndependent ==
  (IparCompleted /\ fault = "none" /\ ObservedVariantAvailable)
    => /\ site.flds["iPAR_EH"] = "val"
       /\ site.flds["iPAR_HM"] = "val"
       /\ Get(site.attributes, "sumGPP_HM") = Float
       /\ Get(site.attributes, "SimYield") = Float

\* getEstimatedEmergence has stored a date computed from the rows of the site's
\* weather
EmergenceEstimated ==
  /\ Entered("getEstimatedEmergence")
  /\ site.GDD = "arr"
  /\ site.weather # NoWeather /\ site.weather # {}
  /\ IsDate(Get(site.attributes, "PredEmergence"))

\* C26: PredEmergence is the date of the weather row at the argmin index, also
\* when the rows do not begin on the sowing date or days are missing, and
\* PredDaysToEmergence is that date minus the sowing date, within 0..365.
C26_EmergenceIsDateOfSelectedRow ==
  EmergenceEstimated =>
    /\ site.attributes["PredEmergence"] =
         RowAt(site.weather,
               ArgMinAbs(CumSum(Cardinality(site.weather), DailyGDD(wdf)), GDDreq))
    /\ site.attributes["PredDaysToEmergence"] =
         site.attributes["PredEmergence"] - site.attributes["sowing"]
    /\ site.attributes["PredDaysToEmergence"] \in 0..LOOKAHEAD

\* estimateNDVI has just returned to fit
NdviEstimated == pc = "getIPAR" /\ call = "fit"

NdviFailed ==
  \E i \in DOMAIN site.errors :
    site.errors[i].error = "Estimating the normalized difference vegetation index (NDVI)"

AnchorPresent(p, i) == Has(site.attributes, AnchorOrder[p][i])

\* C27: estimateNDVI starts the curves of HM and HpM from NDVI_atHeading_EH
\* when it is present and from NDVI_atHeading_pEH otherwise, those of pHM and
\* pHpM from NDVI_atHeading_EpH when present and from NDVI_atHeading_pEpH
\* otherwise; when neither is present the curve stays unavailable and no
\* error is recorded.
C27_AnchorPreference ==
  NdviEstimated =>
    \A p \in DOMAIN AnchorOrder :
      /\ site.flds["Norm_SimNDVI_" \o p] = "val"
           => /\ p \in DOMAIN site.anchorOf
              /\ AnchorPresent(p, 1) => site.anchorOf[p] = AnchorOrder[p][1]
              /\ ~AnchorPresent(p, 1)
                   => AnchorPresent(p, 2) /\ site.anchorOf[p] = AnchorOrder[p][2]
      /\ (site.flds["Norm_TT_" \o p] = "val" /\ ~AnchorPresent(p, 1) /\ ~AnchorPresent(p, 2))
           => /\ site.flds["Norm_SimNDVI_" \o p] = "none"
              /\ fault # "ndvi" => ~NdviFailed

C27_FallbackAnchorUsed ==
  /\ NdviEstimated
  /\ \E p \in DOMAIN AnchorOrder :
       /\ ~AnchorPresent(p, 1) /\ AnchorPresent(p, 2)
       /\ site.flds["Norm_SimNDVI_" \o p] = "val"
       /\ p \in DOMAIN site.anchorOf

C27_NoAnchor ==
  /\ NdviEstimated
  /\ \E p \in DOMAIN AnchorOrder :
       site.flds["Norm_TT_" \o p] = "val" /\ ~AnchorPresent(p, 1) /\ ~AnchorPresent(p, 2)

\* C28: when the caller passes no base temperature, the GDD series is
\* computed with the configured CROP_TBASE_GDD.
C28_GddUsesConfiguredBase ==
  (calc.fn = "getGDD" /\ calc.Tbase = Absent)
    => calc.out = calculateGDD(calc.temp, CROP_TBASE_GDD)

PhenologyCalled == calc.fn = "getPhenologyDates"

ObservedGiven == ~IsNullOrEmpty(Get(calc.given, calc.stage))

OffsetGiven == ~IsNullOrEmpty(Get(calc.given, StageOffsets[calc.stage]))

\* what C29 says of a stage, but for the days between sowing and a derived date
PhenologyDateRule(daysMatchOffset) ==
  /\ ObservedGiven => calc.out[calc.stage] = calc.given[calc.stage]
  /\ (~ObservedGiven /\ OffsetGiven) => daysMatchOffset
  /\ (~ObservedGiven /\ ~OffsetGiven)
       => Get(calc.out, calc.stage) = Get(calc.given, calc.stage)

\* C29: for each of emergence, heading, anthesis and maturity
\* getPhenologyDates keeps the observed date when one is present; otherwise,
\* when the Days_To_<stage> offset is present, it stores sowing + offset days
\* in the stage's attribute, so that the derived date minus the sowing date
\* equals the offset.
C29_DerivedDateMatchesOffset ==
  PhenologyCalled =>
    PhenologyDateRule(2 * (calc.out[calc.stage] - calc.given["sowing"])
                        = calc.given[StageOffsets[calc.stage]])

\* C29 (amended): the same, the derived date minus the sowing date being the
\* offset truncated to whole days.
C29_DerivedDateMatchesWholeDays ==
  PhenologyCalled =>
    PhenologyDateRule(calc.out[calc.stage] - calc.given["sowing"]
                        = IntTrunc(calc.given[StageOffsets[calc.stage]], 2))

C29_DateDerivedFromOffset ==
  /\ PhenologyCalled
  /\ ~ObservedGiven /\ OffsetGiven
  /\ calc.given[StageOffsets[calc.stage]] = 10
  /\ calc.out[calc.stage] = SowDay + 5

\* the correction step of getIPAR has replaced an NDVI-at-heading attribute
AnchorCorrected ==
  \E p \in {"EH", "pEH", "EpH", "pEpH"} :
    Get(site.attributes, "NDVI_atHeading_" \o p) = Corrected

\* C30: the NDVI-at-heading correction of getIPAR changes the
\* NDVI_atHeading_* attributes and the re-simulated NDVI series only: the
\* iPAR series of the run, and the GPP sums and yields computed from them, are
\* those obtained from the uncorrected NDVI at heading.
C30_CorrectionLeavesIparAlone ==
  (IparCompleted /\ AnchorCorrected) =>
    /\ \A c \in DOMAIN site.iparFrom :
         site.iparFrom[c] = Float /\ site.flds["iPAR_" \o c] # "undef"
    /\ \A k \in DOMAIN site.attributes :
         site.attributes[k] = Corrected
           => k \in {"NDVI_atHeading_" \o p : p \in {"EH", "pEH", "EpH", "pEpH"}}
    /\ \A f \in DOMAIN site.yieldOf : site.attributes[f] = Float

C30_CorrectedAfterIpar ==
  /\ IparCompleted /\ AnchorCorrected
  /\ site.iparFrom # <<>>
  /\ site.flds["NDVI"] = "val"
  /\ Get(site.attributes, "SimYield") = Float

====
